---- MODULE Spec2Model ----
(***************************************************************************)
(* Model of lariov::SIOVChannelStatusProvider (the channel status store    *)
(* with its persistent snapshot fData and its per-event overlay fNewNoisy) *)
(* and of the calls the SIOVChannelFilterService makes on it.              *)
(***************************************************************************)
EXTENDS Integers, FiniteSets, Sequences, TLC

(* ------------------------------ bounds -------------------------------- *)

\* number of channels the geometry enumerates (ids 0 .. NChannels-1)
NChannels == 1

\* event timestamps are 0 .. MaxTime
MaxTime == 1

\* a raw digit holds at most MaxSamples time samples
MaxSamples == 3

\* the ADC values of a raw digit are MinAdc .. MinAdc + NAdcValues - 1
NAdcValues == 3

Channels == 0 .. (NChannels - 1)

Timestamps == 0 .. MaxTime

(* ------------------------- status enumeration ------------------------- *)

kDISCONNECTED == "kDISCONNECTED"

kDEAD == "kDEAD"

kLOWNOISE == "kLOWNOISE"

kNOISY == "kNOISY"

kGOOD == "kGOOD"

kUNKNOWN == "kUNKNOWN"

Statuses == {kDISCONNECTED, kDEAD, kLOWNOISE, kNOISY, kGOOD, kUNKNOWN}

\* a raw status value of the folder that equals none of the enumerators
kUnrecognized == "99"

\* the values the "status" field of a fetched row can take
RawCodes == Statuses \cup {kUnrecognized}

\* the three data sources of the provider
DataSources == {"Database", "File", "Default"}

\* outcome of a GetRow that finds no row for the channel
IOVDataError == "IOVDataError"

\* a snapshot with no rows
EmptyTable == << >>

\* all snapshots over the known channels with values in S
Tables(S) == UNION {[D -> S] : D \in SUBSET Channels}

VARIABLES fDataSource, fData, fDataIoV, fNewNoisy, fFolder, last, digit

vars == <<fDataSource, fData, fDataIoV, fNewNoisy, fFolder, last, digit>>

(* ------------------------- the Backing Store -------------------------- *)

\* is ts inside the folder's cached validity interval [begin, end)
Covers(folder, ts) == folder.begin <= ts /\ ts < folder.end

\* the validity intervals a fetch for ts can bring
NewIntervals(ts) == {iv \in (0 .. MaxTime) \X (1 .. (MaxTime + 1)) : iv[1] <= ts /\ ts < iv[2]}

\* DatabaseRetrievalAlg::UpdateFolder(ts): the possible outcomes
UpdateFolder(ts) ==
  IF Covers(fFolder, ts)
  THEN {[updated |-> FALSE, fetch |-> "none", folder |-> fFolder]}
  ELSE {[updated |-> FALSE, fetch |-> "failed", folder |-> fFolder]}
       \cup {[updated |-> TRUE, fetch |-> "ok",
              folder |-> [rows |-> R, begin |-> iv[1], end |-> iv[2]]] :
               R \in Tables(RawCodes), iv \in NewIntervals(ts)}

(* --------------------------- the provider ----------------------------- *)

\* Snapshot::GetRow: the row's status, or IOVDataError when there is none
GetRow(table, ch) == IF ch \in DOMAIN table THEN table[ch] ELSE IOVDataError

\* Snapshot::AddOrReplaceRow
AddOrReplaceRow(table, ch, st) ==
  [c \in (DOMAIN table) \cup {ch} |-> IF c = ch THEN st ELSE table[c]]

\* GetChannelStatus with the two tables consulted in the wrong order
GetChannelStatusDataFirst(ch) ==
  LET r == GetRow(fData, ch)
  IN IF r = IOVDataError THEN GetRow(fNewNoisy, ch) ELSE r

\* GetChannelStatus: overlay first, the snapshot when the overlay throws
GetChannelStatus(ch) ==
  LET r == GetRow(fNewNoisy, ch)
  IN IF r = IOVDataError THEN GetRow(fData, ch) ELSE r

\* status of the channel in the persistent table, Unknown when it has none
PersistentStatus(ch) == IF ch \in DOMAIN fData THEN fData[ch] ELSE kUNKNOWN

IsPresent(ch) == PersistentStatus(ch) # kDISCONNECTED

IsBad(ch) == PersistentStatus(ch) \in {kDEAD, kLOWNOISE}

\* the switch of Update with a default arm that lets the row pass as good
StatusFromCodeDefaultGood(code) ==
  CASE code = kDISCONNECTED -> kDISCONNECTED
    [] code = kDEAD -> kDEAD
    [] code = kLOWNOISE -> kLOWNOISE
    [] code = kNOISY -> kNOISY
    [] code = kGOOD -> kGOOD
    [] OTHER -> kGOOD

\* the switch of Update: raw status code to status
StatusFromCode(code) ==
  CASE code = kDISCONNECTED -> kDISCONNECTED
    [] code = kDEAD -> kDEAD
    [] code = kLOWNOISE -> kLOWNOISE
    [] code = kNOISY -> kNOISY
    [] code = kGOOD -> kGOOD
    [] OTHER -> kUNKNOWN

\* the status of fDefault, a ChannelStatus built for channel 0 at line 34 and
\* never given a status
DefaultStatus == kUNKNOWN

\* GetChannelsWithStatus, line 117: the bound of both loops
MaxChannel == NChannels - 1

\* GetChannelsWithStatus, lines 121 and 129: ch = 0; ch != maxChannel; ++ch
ScannedChannels == {ch \in Channels : ch < MaxChannel}

\* GetChannelsWithStatus(status): the set returned, or raised when a
\* GetChannelStatus of the scan throws
GetChannelsWithStatus(status) ==
  IF fDataSource = "Default"
  THEN [raised |-> FALSE,
        chans |-> IF DefaultStatus = status THEN ScannedChannels ELSE {}]
  ELSE IF \E ch \in ScannedChannels : GetChannelStatus(ch) = IOVDataError
       THEN [raised |-> TRUE, chans |-> {}]
       ELSE [raised |-> FALSE,
             chans |-> {ch \in ScannedChannels : GetChannelStatus(ch) = status}]

\* the constructor's choice of the data source
ChooseDataSource(UseDB, UseFile) ==
  IF UseDB THEN "Database" ELSE IF UseFile THEN "File" ELSE "Default"

\* the constructor's seeding of fData
SeedData(source) ==
  IF source = "Default" THEN [ch \in Channels |-> kGOOD] ELSE EmptyTable

\* Update without the return at line 63
ConsultsFolderAnySource(source) == TRUE

\* Update, line 63: only the Database source goes on to UpdateFolder
ConsultsFolder(source) == source = "Database"

\* Update without the Clear of line 62
OverlayAfterUpdateKept(refreshed) == fNewNoisy

\* Update with the Clear of line 62 moved below the two returns
OverlayAfterUpdateLate(refreshed) == IF refreshed THEN EmptyTable ELSE fNewNoisy

\* Update, line 62: the overlay after the call, whatever the call does next
OverlayAfterUpdate(refreshed) == EmptyTable

\* Update with the answer of UpdateFolder ignored
FolderWasUpdatedAlways(out) == TRUE

\* Update returning only when the folder's cache was hit, not when the fetch failed
FolderWasUpdatedOrFailed(out) == out.updated \/ out.fetch = "failed"

\* Update, line 64: the folder's answer decides whether fData is rebuilt
FolderWasUpdated(out) == out.updated

\* Update without the fData.Clear() of line 67: the new rows are merged
SnapshotFromFolderMerge(old, rows) ==
  [ch \in (DOMAIN old) \cup (DOMAIN rows) |->
     IF ch \in DOMAIN rows THEN StatusFromCode(rows[ch]) ELSE old[ch]]

\* Update, lines 67-95: fData rebuilt from the folder's rows
SnapshotFromFolder(old, rows) == [ch \in DOMAIN rows |-> StatusFromCode(rows[ch])]

\* AddNoisyChannel without the IsPresent test
EligibleNoPresenceTest(ch) == ~IsBad(ch)

\* AddNoisyChannel without the IsBad test
EligibleNoBadTest(ch) == IsPresent(ch)

\* AddNoisyChannel, line 167
Eligible(ch) == ~IsBad(ch) /\ IsPresent(ch)

(* ---------------- the noisy-channel classifier (service) ---------------- *)

\* the lowest ADC value of the modelled digits
MinAdc == 9

AdcValues == MinAdc .. (MinAdc + NAdcValues - 1)

\* largest value of a short: binOffset, the bin keys and the bin counts
ShortMax == 32767

\* 1. - fTruncMeanFraction as the double the code computes, <<numerator,
\* denominator>>: fractions 0 and 0.5, and the default 0.1, which as a float is
\* 13421773 / 2^27
KeepFractions == {<<1, 1>>, <<120795955, 134217728>>, <<1, 2>>}

\* 1. - fTruncMeanFraction for the default TruncMeanFraction of 0.1
KeepDefault == <<120795955, 134217728>>

\* fRmsCut[view]: the configured cut of the channel's view
RmsCuts == {0, 1}

Min(a, b) == IF a < b THEN a ELSE b

Abs(a) == IF a < 0 THEN 0 - a ELSE a

\* conversion of a double to int: truncation toward zero of num / den
TruncDiv(num, den) == IF num >= 0 THEN num \div den ELSE 0 - ((0 - num) \div den)

\* binAdcMap[v] after the loop of lines 125-128
BinCount(adc, v) == Cardinality({i \in 1 .. Len(adc) : adc[i] = v})

\* the keys of binAdcMap after the loop of lines 125-128
Bins(adc) == {adc[i] : i \in 1 .. Len(adc)}

RECURSIVE ScanMaxTies(_, _, _, _)
\* the scan of lines 133-140 replacing the maximum on an equal count as well
ScanMaxTies(adc, rest, binMax, binMaxCnt) ==
  IF rest = {} THEN [binMax |-> binMax, binMaxCnt |-> binMaxCnt]
  ELSE LET k == CHOOSE x \in rest : \A y \in rest : x <= y
       IN IF BinCount(adc, k) >= binMaxCnt
          THEN ScanMaxTies(adc, rest \ {k}, k, BinCount(adc, k))
          ELSE ScanMaxTies(adc, rest \ {k}, binMax, binMaxCnt)

RECURSIVE ScanMax(_, _, _, _)
\* lines 133-140: the bins in ascending key order, a bin replaces the
\* maximum on a strictly greater count
ScanMax(adc, rest, binMax, binMaxCnt) ==
  IF rest = {} THEN [binMax |-> binMax, binMaxCnt |-> binMaxCnt]
  ELSE LET k == CHOOSE x \in rest : \A y \in rest : x <= y
       IN IF BinCount(adc, k) > binMaxCnt
          THEN ScanMax(adc, rest \ {k}, k, BinCount(adc, k))
          ELSE ScanMax(adc, rest \ {k}, binMax, binMaxCnt)

\* lines 131-140: binMax(-1), binMaxCnt(0), then the scan
FindMaxBin(adc) == ScanMax(adc, Bins(adc), 0 - 1, 0)

\* line 146: int minNumBins = (1. - fTruncMeanFraction) * dataSize - 1
MinNumBins(keep, dataSize) == TruncDiv(keep[1] * dataSize - keep[2], keep[2])

\* the largest distance of a populated bin from binMax
Reach(adc, binMax) ==
  IF Bins(adc) = {} THEN 0
  ELSE LET far == CHOOSE v \in Bins(adc) : \A w \in Bins(adc) : Abs(w - binMax) <= Abs(v - binMax)
       IN Abs(far - binMax)

\* The offset of the next iteration that can add a bin.  No bin lies farther
\* than reach from binMax, so the iterations at the offsets o .. ShortMax and,
\* after binOffset++ (lines 171, 206) has wrapped the short, at the offsets
\* -ShortMax-1 .. -reach-1 add nothing: they are counted in skipped and the
\* loop is resumed at the offset -reach.
NextOffset(o, reach) ==
  IF o > reach
  THEN [offset |-> 0 - reach, skipped |-> (ShortMax + 1 - o) + (ShortMax + 1 - reach),
        wrapped |-> TRUE]
  ELSE [offset |-> o, skipped |-> 0, wrapped |-> FALSE]

\* sets of the bins an iteration at offset o adds (those with a count)
AddedBins(adc, binMax, o) == {v \in {binMax - o, binMax + o} : BinCount(adc, v) > 0}

RECURSIVE MeanLoop(_, _, _, _)
\* the loop of lines 157-172: while (curBinCnt < minNumBins) add the bin at
\* binMax-binOffset, then the bin at binMax+binOffset, then binOffset++.
\* With no bin at all and a target above 0 the loop never ends (hung).
MeanLoop(adc, binMax, minNumBins, st) ==
  IF st.cnt >= minNumBins THEN st
  ELSE IF Bins(adc) = {} THEN [st EXCEPT !.hung = TRUE]
  ELSE LET nx == NextOffset(st.offset, Reach(adc, binMax))
           lo == binMax - nx.offset
           hi == binMax + nx.offset
           cLo == BinCount(adc, lo)
           cHi == BinCount(adc, hi)
       IN MeanLoop(adc, binMax, minNumBins,
            [cnt |-> st.cnt + cLo + cHi,
             sum |-> st.sum + cLo * lo + cHi * hi,
             offset |-> nx.offset + 1,
             iters |-> st.iters + 1 + nx.skipped,
             wrapped |-> st.wrapped \/ nx.wrapped,
             bins |-> st.bins \cup AddedBins(adc, binMax, nx.offset),
             twice |-> st.twice \/ (AddedBins(adc, binMax, nx.offset) \cap st.bins # {})
                        \/ (cLo > 0 /\ lo = hi),
             hung |-> FALSE])

\* lines 147-152: the state of the mean pass before its loop
MeanStart(binMax, binMaxCnt) ==
  [cnt |-> binMaxCnt, sum |-> binMaxCnt * binMax, offset |-> 1, iters |-> 0,
   wrapped |-> FALSE, bins |-> {v \in {binMax} : binMaxCnt > 0}, twice |-> FALSE,
   hung |-> FALSE]

\* lines 147-172: the mean pass
MeanPass(adc, binMax, binMaxCnt, minNumBins) ==
  MeanLoop(adc, binMax, minNumBins, MeanStart(binMax, binMaxCnt))

\* the square of (double(binIdx) - truncMean) * curBinCnt, truncMean being
\* sum / curBinCnt (line 174)
Dev2(v, sum, cnt) == (cnt * v - sum) * (cnt * v - sum)

RECURSIVE RmsLoop(_, _, _, _, _)
\* the loop of lines 184-207, mean = <<sum, count>> of the mean pass; sq is
\* rmsVal times the square of the mean's count
RmsLoop(adc, binMax, minNumBins, mean, st) ==
  IF st.cnt >= minNumBins THEN st
  ELSE IF Bins(adc) = {} THEN [st EXCEPT !.hung = TRUE]
  ELSE LET nx == NextOffset(st.offset, Reach(adc, binMax))
           lo == binMax - nx.offset
           hi == binMax + nx.offset
           cLo == IF BinCount(adc, lo) > 0 THEN BinCount(adc, lo) ELSE 0
           cHi == IF BinCount(adc, hi) > 0 THEN BinCount(adc, hi) ELSE 0
       IN RmsLoop(adc, binMax, minNumBins, mean,
            [cnt |-> st.cnt + cLo + cHi,
             sq |-> st.sq + cLo * Dev2(lo, mean[1], mean[2]) + cHi * Dev2(hi, mean[1], mean[2]),
             offset |-> nx.offset + 1,
             iters |-> st.iters + 1 + nx.skipped,
             bins |-> st.bins \cup AddedBins(adc, binMax, nx.offset),
             hung |-> FALSE])

\* the rms pass without the binOffset = 1 of line 176, entered at offset 0
RmsPassFromZero(adc, binMax, binMaxCnt, minNumBins, mean) ==
  RmsLoop(adc, binMax, minNumBins, mean,
    [cnt |-> binMaxCnt, sq |-> binMaxCnt * Dev2(binMax, mean[1], mean[2]), offset |-> 0,
     iters |-> 0, bins |-> {v \in {binMax} : binMaxCnt > 0}, hung |-> FALSE])

\* lines 176-207: the rms pass
RmsPass(adc, binMax, binMaxCnt, minNumBins, mean) ==
  RmsLoop(adc, binMax, minNumBins, mean,
    [cnt |-> binMaxCnt, sq |-> binMaxCnt * Dev2(binMax, mean[1], mean[2]), offset |-> 1,
     iters |-> 0, bins |-> {v \in {binMax} : binMaxCnt > 0}, hung |-> FALSE])

\* line 210 with > in place of >=
RmsAtLeastStrict(sq, meanCnt, rmsCnt, cut) ==
  IF meanCnt = 0 \/ rmsCnt = 0 THEN cut < 0
  ELSE cut < 0 \/ sq > cut * cut * meanCnt * meanCnt * rmsCnt

\* lines 209-210: sqrt(max(0., rmsVal / rmsBinCnt)) >= cut, where rmsVal is
\* sq / meanCnt^2.  With no sample truncMean is 0/0, rmsVal is not a number
\* and std::max(0., rmsVal) is 0.
RmsAtLeast(sq, meanCnt, rmsCnt, cut) ==
  IF meanCnt = 0 \/ rmsCnt = 0 THEN cut <= 0
  ELSE cut <= 0 \/ sq >= cut * cut * meanCnt * meanCnt * rmsCnt

\* lines 108-210 for one digit: the statistics of its window; the rms pass
\* is not reached when the mean pass hangs
Analyse(adc, dataSize, keep, cut) ==
  LET mx == FindMaxBin(adc)
      target == MinNumBins(keep, dataSize)
      mean == MeanPass(adc, mx.binMax, mx.binMaxCnt, target)
      rms == IF mean.hung THEN [cnt |-> 0, sq |-> 0, offset |-> 1, iters |-> 0, bins |-> {}, hung |-> TRUE]
             ELSE RmsPass(adc, mx.binMax, mx.binMaxCnt, target, <<mean.sum, mean.cnt>>)
  IN [binMax |-> mx.binMax, binMaxCnt |-> mx.binMaxCnt, minNumBins |-> target,
      mean |-> mean, rms |-> rms,
      noisy |-> (~mean.hung /\ RmsAtLeast(rms.sq, mean.cnt, rms.cnt, cut))]

\* the statistics of a digit that was not analysed
NoStats ==
  [binMax |-> 0 - 1, binMaxCnt |-> 0, minNumBins |-> 0,
   mean |-> MeanStart(0 - 1, 0),
   rms |-> [cnt |-> 0, sq |-> 0, offset |-> 1, iters |-> 0, bins |-> {}, hung |-> FALSE],
   noisy |-> FALSE]

\* no raw digit at hand: the provider is used without the classifier
NoDigit ==
  [pc |-> "none", channel |-> 0, dataSize |-> 0, rawadc |-> << >>, maxTimeSamples |-> MaxSamples,
   keep |-> KeepDefault, cut |-> 0, stats |-> NoStats]

\* line 106: the digit of a bad or absent channel is skipped
Gate(ch) == IsBad(ch) \/ ~IsPresent(ch)

\* the last call on the provider: its argument, what it returned, whether the
\* Backing Store was asked, and what the call removed (dropped: the overlay
\* had records before the call; lost: a channel left the persistent table;
\* chans: the channel set a GetChannelsWithStatus call returned)
NoCall == [op |-> "ctor", arg |-> 0, ret |-> FALSE, status |-> "none", fetch |-> "none",
           dropped |-> FALSE, lost |-> FALSE, chans |-> {}]

Init ==
  /\ \E UseDB \in BOOLEAN, UseFile \in BOOLEAN :
       fDataSource = ChooseDataSource(UseDB, UseFile)
  /\ fData = SeedData(fDataSource)
  /\ fDataIoV = <<0, 0>>
  /\ fNewNoisy = EmptyTable
  /\ fFolder = [rows |-> EmptyTable, begin |-> 0, end |-> 0]
  /\ last = NoCall
  /\ digit = NoDigit

\* Update(ts) when the source is not consulted (return at line 63)
UpdateNoFolder(ts) ==
  /\ ~ConsultsFolder(fDataSource)
  /\ fNewNoisy' = OverlayAfterUpdate(FALSE)
  /\ last' = [op |-> "Update", arg |-> ts, ret |-> FALSE, status |-> "none", fetch |-> "none",
              dropped |-> (fNewNoisy # EmptyTable), lost |-> FALSE, chans |-> {}]
  /\ UNCHANGED <<fDataSource, fData, fDataIoV, fFolder, digit>>

\* Update(ts) from line 64 on
UpdateFromFolder(ts) ==
  /\ ConsultsFolder(fDataSource)
  /\ \E out \in UpdateFolder(ts) :
       LET refreshed == FolderWasUpdated(out)
       IN /\ fFolder' = out.folder
          /\ fNewNoisy' = OverlayAfterUpdate(refreshed)
          /\ fData' = IF refreshed THEN SnapshotFromFolder(fData, out.folder.rows) ELSE fData
          /\ fDataIoV' = IF refreshed THEN <<out.folder.begin, out.folder.end>> ELSE fDataIoV
          /\ last' = [op |-> "Update", arg |-> ts, ret |-> refreshed, status |-> "none",
                      fetch |-> out.fetch,
                      dropped |-> (fNewNoisy # EmptyTable),
                      lost |-> ((DOMAIN fData) \ (DOMAIN fData') # {}), chans |-> {}]
  /\ UNCHANGED <<fDataSource, digit>>

Update(ts) == UpdateNoFolder(ts) \/ UpdateFromFolder(ts)

\* AddNoisyChannel(ch)
AddNoisyChannel(ch) ==
  /\ fNewNoisy' = IF Eligible(ch) THEN AddOrReplaceRow(fNewNoisy, ch, kNOISY) ELSE fNewNoisy
  /\ last' = [op |-> "AddNoisyChannel", arg |-> ch, ret |-> FALSE, status |-> "none",
              fetch |-> "none", dropped |-> FALSE, lost |-> FALSE, chans |-> {}]
  /\ UNCHANGED <<fDataSource, fData, fDataIoV, fFolder, digit>>

\* a caller's GetChannelStatus(ch); the answer is kept in last.status
Lookup(ch) ==
  /\ last' = [op |-> "GetChannelStatus", arg |-> ch, ret |-> FALSE,
              status |-> GetChannelStatus(ch), fetch |-> "none",
              dropped |-> FALSE, lost |-> FALSE, chans |-> {}]
  /\ UNCHANGED <<fDataSource, fData, fDataIoV, fNewNoisy, fFolder, digit>>

\* a caller's GetChannelsWithStatus(status); ret tells that it returned
ChannelsWithStatus(status) ==
  /\ last' = [op |-> "GetChannelsWithStatus", arg |-> 0,
              ret |-> ~GetChannelsWithStatus(status).raised, status |-> status,
              fetch |-> "none", dropped |-> FALSE, lost |-> FALSE,
              chans |-> GetChannelsWithStatus(status).chans]
  /\ UNCHANGED <<fDataSource, fData, fDataIoV, fNewNoisy, fFolder, digit>>

Next ==
  \/ \E ts \in Timestamps : UpdateNoFolder(ts)
  \/ \E ts \in Timestamps : UpdateFromFolder(ts)
  \/ \E ch \in Channels : AddNoisyChannel(ch)
  \/ \E ch \in Channels : Lookup(ch)
  \/ \E status \in Statuses : ChannelsWithStatus(status)

Spec == Init /\ [][Next]_vars

(* -------------------- one digit of FindNoisyChannels -------------------- *)

\* all sequences of ADC values of length n
AdcSeqs(n) == [1 .. n -> AdcValues]

\* the provider as PreProcessEvent's Update leaves it, and one raw digit of
\* the event about to go through the loop of FindNoisyChannels: maxTimeSamples
\* is the minimum left by the digits before it, rawadc the uncompressed
\* samples, resized to min(maxTimeSamples, dataSize)
ClassifierInit ==
  /\ fDataSource \in DataSources
  /\ \E rows \in Tables(RawCodes) :
       /\ fFolder = IF fDataSource = "Database"
                    THEN [rows |-> rows, begin |-> 0, end |-> MaxTime + 1]
                    ELSE [rows |-> EmptyTable, begin |-> 0, end |-> 0]
       /\ fData = IF fDataSource = "Database"
                  THEN SnapshotFromFolder(EmptyTable, fFolder.rows)
                  ELSE SeedData(fDataSource)
  /\ fDataIoV = <<fFolder.begin, fFolder.end>>
  /\ fNewNoisy = EmptyTable
  /\ last = [NoCall EXCEPT !.op = "Update", !.ret = (fDataSource = "Database"),
                           !.fetch = IF fDataSource = "Database" THEN "ok" ELSE "none"]
  /\ \E ch \in Channels, d \in 0 .. MaxSamples, m \in 0 .. MaxSamples,
        keep \in KeepFractions, cut \in RmsCuts :
       \E adc \in AdcSeqs(Min(m, d)) :
         digit = [pc |-> "todo", channel |-> ch, dataSize |-> d, rawadc |-> adc,
                  maxTimeSamples |-> m, keep |-> keep, cut |-> cut, stats |-> NoStats]

\* one pass of the loop body of FindNoisyChannels (lines 100-214)
ClassifyDigit ==
  /\ digit.pc = "todo"
  /\ IF Gate(digit.channel)
     THEN /\ digit' = [digit EXCEPT !.pc = "skipped"]
          /\ fNewNoisy' = fNewNoisy
     ELSE LET st == Analyse(digit.rawadc, digit.dataSize, digit.keep, digit.cut)
          IN /\ digit' = [digit EXCEPT !.pc = IF st.mean.hung THEN "hung" ELSE "done",
                                       !.maxTimeSamples = Min(digit.maxTimeSamples, digit.dataSize),
                                       !.stats = st]
             /\ fNewNoisy' = IF st.noisy /\ Eligible(digit.channel)
                             THEN AddOrReplaceRow(fNewNoisy, digit.channel, kNOISY)
                             ELSE fNewNoisy
  /\ last' = IF digit'.pc = "done" /\ digit'.stats.noisy
             THEN [NoCall EXCEPT !.op = "AddNoisyChannel", !.arg = digit.channel]
             ELSE last
  /\ UNCHANGED <<fDataSource, fData, fDataIoV, fFolder>>

ClassifierNext == ClassifyDigit

ClassifierSpec == ClassifierInit /\ [][ClassifierNext]_vars

TypeOK ==
  /\ fDataSource \in DataSources
  /\ fData \in Tables(Statuses)
  /\ fNewNoisy \in Tables(Statuses)
  /\ fFolder.rows \in Tables(RawCodes)

(* ------------------------------ claims -------------------------------- *)

\* the statuses that make a channel bad or absent for the classifier
Ineligible == {kDISCONNECTED, kDEAD, kLOWNOISE}

\* ts is covered by the validity interval iov
Within(iov, ts) == iov[1] <= ts /\ ts < iov[2]

\* ts is covered by the validity interval of the persistent table
InIoV(ts) == Within(fDataIoV, ts)

\* C1 - precedence: every channel with a Noisy record in the overlay is
\* looked up as Noisy, whatever the persistent table says about it, in every
\* state reached by Update and AddNoisyChannel calls; a GetChannelStatus call
\* on such a channel has returned Noisy.
C1_Precedence ==
  /\ \A ch \in Channels :
       (ch \in DOMAIN fNewNoisy /\ fNewNoisy[ch] = kNOISY) => GetChannelStatus(ch) = kNOISY
  /\ (last.op = "GetChannelStatus" /\ last.arg \in DOMAIN fNewNoisy
        /\ fNewNoisy[last.arg] = kNOISY) => last.status = kNOISY

\* a lookup answered Noisy from the overlay over a Good persistent record
C1_Witness ==
  /\ last.op = "GetChannelStatus"
  /\ last.arg \in DOMAIN fNewNoisy
  /\ last.arg \in DOMAIN fData
  /\ fData[last.arg] = kGOOD
  /\ last.status = kNOISY

\* C2 - lookup miss: a channel with no record in the overlay and none in the
\* persistent table is looked up as Unknown, and the lookup raises no error.
C2_LookupMiss ==
  (last.op = "GetChannelStatus" /\ last.arg \notin DOMAIN fNewNoisy
     /\ last.arg \notin DOMAIN fData) => last.status = kUNKNOWN

\* C3 - right after any Update call the overlay is empty, in every mode and
\* whatever the refresh did, and every lookup is answered by the persistent
\* table.
C3_OverlayClearedOnUpdate ==
  last.op = "Update" =>
    /\ fNewNoisy = EmptyTable
    /\ \A ch \in Channels : GetChannelStatus(ch) = GetRow(fData, ch)

\* an Update whose fetch failed, called while the overlay held records
C3_Witness ==
  /\ last.op = "Update"
  /\ last.fetch = "failed"
  /\ last.dropped
  /\ fNewNoisy = EmptyTable

\* C4 - eligibility: AddNoisyChannel on a channel whose persistent status is
\* Dead, LowNoise or Disconnected changes neither the overlay nor the
\* persistent table.
C4_EligibilityNoOp ==
  [][(last'.op = "AddNoisyChannel" /\ PersistentStatus(last'.arg) \in Ineligible)
       => (fNewNoisy' = fNewNoisy /\ fData' = fData /\ fDataIoV' = fDataIoV)]_vars

\* AddNoisyChannel was called on a channel that a refresh made Dead, and the
\* channel has no overlay record
C4_Witness ==
  /\ last.op = "AddNoisyChannel"
  /\ last.arg \in DOMAIN fData
  /\ fData[last.arg] = kDEAD
  /\ last.arg \notin DOMAIN fNewNoisy
  /\ fDataIoV # <<0, 0>>

\* C5 - overlay content: every overlay record is Noisy in every state, and a
\* record enters the overlay only in a step in which its channel's persistent
\* status is none of Disconnected, Dead, LowNoise.
C5_OverlayContent ==
  /\ [](\A ch \in DOMAIN fNewNoisy : fNewNoisy[ch] = kNOISY)
  /\ [][\A ch \in (DOMAIN fNewNoisy') \ (DOMAIN fNewNoisy) :
          /\ last'.op = "AddNoisyChannel"
          /\ last'.arg = ch
          /\ PersistentStatus(ch) \notin Ineligible]_vars

\* AddNoisyChannel has written a Noisy record for a channel that is Good in
\* the persistent table
C5_Witness ==
  /\ last.op = "AddNoisyChannel"
  /\ last.arg \in DOMAIN fNewNoisy
  /\ fNewNoisy[last.arg] = kNOISY
  /\ last.arg \in DOMAIN fData
  /\ fData[last.arg] = kGOOD

\* C6 - default source: the persistent table holds Good for every channel of
\* the geometry from construction on, and no Update changes it, asks the
\* Backing Store or reports a refresh.
C6_DefaultSeeding ==
  fDataSource = "Default" =>
    /\ fData = [ch \in Channels |-> kGOOD]
    /\ fDataIoV = <<0, 0>>
    /\ last.op = "Update" => (~last.ret /\ last.fetch = "none")

\* an Update at the largest timestamp has returned in Default mode
C6_Witness ==
  /\ fDataSource = "Default"
  /\ last.op = "Update"
  /\ last.arg = MaxTime
  /\ DOMAIN fData = Channels

\* C7 - cache hit: an Update(t) with t inside the cached validity interval
\* fetches nothing, reports no refresh and leaves the persistent table and
\* its interval as they were.
C7_CacheHit ==
  [][(last'.op = "Update" /\ InIoV(last'.arg))
       => (last'.fetch = "none" /\ ~last'.ret /\ fData' = fData /\ fDataIoV' = fDataIoV)]_vars

\* an Update on a covered timestamp has returned without a fetch, the table
\* holding rows of an earlier refresh
C7_Witness ==
  /\ fDataSource = "Database"
  /\ last.op = "Update"
  /\ InIoV(last.arg)
  /\ last.fetch = "none"
  /\ ~last.ret
  /\ fData # EmptyTable

\* C8 - refresh failure: an Update whose fetch fails reports "not refreshed"
\* and leaves the persistent table and its interval as they were, so every
\* channel without an overlay record is looked up as before the call.
C8_FailurePreservesState ==
  [][(last'.op = "Update" /\ last'.fetch = "failed")
       => /\ ~last'.ret
          /\ fData' = fData
          /\ fDataIoV' = fDataIoV
          /\ \A ch \in Channels :
               ch \notin DOMAIN fNewNoisy => GetChannelStatus(ch)' = GetChannelStatus(ch)]_vars

\* a fetch has failed after an earlier successful refresh
C8_Witness ==
  /\ last.op = "Update"
  /\ last.fetch = "failed"
  /\ ~last.ret
  /\ fData # EmptyTable
  /\ fDataIoV # <<0, 0>>

\* C9 - refresh in every non-Default mode: with a File or a Database source,
\* an Update(t) with t outside the cached validity interval asks the Backing
\* Store, and when the fetch succeeds it reports the refresh and the
\* persistent table takes the fetched interval.
C9_RefreshInEveryNonDefaultMode ==
  [][(last'.op = "Update" /\ fDataSource \in {"File", "Database"} /\ ~InIoV(last'.arg))
       => /\ last'.fetch # "none"
          /\ last'.fetch = "ok" => (last'.ret /\ Within(fDataIoV', last'.arg))]_vars

\* C10 - full replacement: after a successful refresh the persistent table
\* has a record for exactly the channels of the fetched rows, each with the
\* status of its row's code, and its interval is the folder's new interval.
C10_FullReplacement ==
  (last.op = "Update" /\ last.ret) =>
    /\ DOMAIN fData = DOMAIN fFolder.rows
    /\ \A ch \in DOMAIN fData : fData[ch] = StatusFromCode(fFolder.rows[ch])
    /\ fDataIoV = <<fFolder.begin, fFolder.end>>

\* a refresh after which a channel of the old table has no record any more
C10_Witness ==
  /\ last.op = "Update"
  /\ last.ret
  /\ last.lost
  /\ DOMAIN fData # Channels

\* the raw codes the switch of Update has a case for
Recognized == {kDISCONNECTED, kDEAD, kLOWNOISE, kNOISY, kGOOD}

\* C11 - fail-safe mapping: after a refresh every fetched row with a
\* recognized code is stored with the status of that code, every row with
\* another code is stored as Unknown, never as Good, and the refresh has
\* succeeded whatever the codes were.
C11_FailSafeMapping ==
  (last.op = "Update" /\ last.ret) =>
    \A ch \in DOMAIN fFolder.rows :
      /\ ch \in DOMAIN fData
      /\ fFolder.rows[ch] \in Recognized => fData[ch] = fFolder.rows[ch]
      /\ fFolder.rows[ch] \notin Recognized => fData[ch] = kUNKNOWN

\* a refresh has stored a row of code 99 as Unknown
C11_Witness ==
  /\ last.op = "Update"
  /\ last.ret
  /\ \E ch \in DOMAIN fFolder.rows :
       fFolder.rows[ch] = kUnrecognized /\ ch \in DOMAIN fData /\ fData[ch] = kUNKNOWN

\* C12 - GetChannelsWithStatus(s) returns, in every mode and state, exactly
\* the channels of the geometry (0 .. NChannels-1) whose persistent-table
\* status is s, whatever the overlay holds.
C12_PersistentTableScan ==
  last.op = "GetChannelsWithStatus" =>
    /\ last.ret
    /\ last.chans = {ch \in Channels : ch \in DOMAIN fData /\ fData[ch] = last.status}

\* C20 - overlay consistent with the persistent table: in every state every
\* channel with an overlay record has a persistent status that is none of
\* Disconnected, Dead, LowNoise, and for every channel with a record in
\* either table the overlay-first lookup and the persistent table agree on
\* "present" and on "bad".
C20_OverlayConsistent ==
  /\ \A ch \in DOMAIN fNewNoisy : PersistentStatus(ch) \notin Ineligible
  /\ \A ch \in (DOMAIN fNewNoisy) \cup (DOMAIN fData) :
       /\ (GetChannelStatus(ch) # kDISCONNECTED) = IsPresent(ch)
       /\ (GetChannelStatus(ch) \in {kDEAD, kLOWNOISE}) = IsBad(ch)

\* a channel holds an overlay record over a Good persistent record after a
\* refresh and an AddNoisyChannel
C20_Witness ==
  /\ fDataSource = "Database"
  /\ last.op = "AddNoisyChannel"
  /\ \E ch \in DOMAIN fNewNoisy :
       ch \in DOMAIN fData /\ fData[ch] = kGOOD /\ GetChannelStatus(ch) = kNOISY

(* ----------------------- claims on the classifier ---------------------- *)

\* the digit went through the statistics (it was not skipped at line 106)
Analysed == digit.pc \in {"done", "hung"}

\* the number of samples of adc within distance k of the value mode
WithinCount(adc, mode, k) == Cardinality({i \in 1 .. Len(adc) : Abs(adc[i] - mode) <= k})

RECURSIVE WithinSum(_, _, _)
\* the sum of the samples of adc within distance k of the value mode
WithinSum(adc, mode, k) ==
  IF adc = << >> THEN 0
  ELSE (IF Abs(Head(adc) - mode) <= k THEN Head(adc) ELSE 0) + WithinSum(Tail(adc), mode, k)

\* the populated bins of adc within distance k of the value mode
WithinBins(adc, mode, k) == {v \in Bins(adc) : Abs(v - mode) <= k}

\* the samples of the truncated-mean example of the specification
ExampleSamples == <<10, 10, 10, 10, 11, 11, 9, 9, 9, 12>>

\* samples with the counts {10: 3, 12: 3, 11: 2}
TieSamples == <<12, 10, 11, 12, 10, 11, 10, 12>>

C14_ModeTieBreak ==
  /\ (Analysed /\ digit.rawadc # << >>) =>
       /\ digit.stats.binMax \in Bins(digit.rawadc)
       /\ digit.stats.binMaxCnt = BinCount(digit.rawadc, digit.stats.binMax)
       /\ \A v \in Bins(digit.rawadc) :
            /\ BinCount(digit.rawadc, v) <= digit.stats.binMaxCnt
            /\ BinCount(digit.rawadc, v) = digit.stats.binMaxCnt => digit.stats.binMax <= v
  /\ FindMaxBin(TieSamples) = [binMax |-> 10, binMaxCnt |-> 3]

\* two sample values share the largest count and the smaller one was taken
C14_Witness ==
  /\ Analysed
  /\ \E v \in Bins(digit.rawadc) :
       /\ v > digit.stats.binMax
       /\ BinCount(digit.rawadc, v) = digit.stats.binMaxCnt

\* C15 - truncated mean: the window of the mean pass is the set of bins
\* within distance K of the mode, K being the first offset (0 for no
\* expansion) at which those bins hold at least minNumBins samples; the count
\* and the weighted sum of the pass are the count and the sum of exactly the
\* samples of that window, each taken once; for the example of the
\* specification the window is {9, 10, 11}, the count 9 and the sum 89.
C15_TruncatedMean ==
  /\ (digit.pc = "done" /\ digit.rawadc # << >>) =>
       \E K \in 0 .. NAdcValues :
         /\ WithinCount(digit.rawadc, digit.stats.binMax, K) >= digit.stats.minNumBins
         /\ K > 0 => WithinCount(digit.rawadc, digit.stats.binMax, K - 1) < digit.stats.minNumBins
         /\ digit.stats.mean.bins = WithinBins(digit.rawadc, digit.stats.binMax, K)
         /\ digit.stats.mean.cnt = WithinCount(digit.rawadc, digit.stats.binMax, K)
         /\ digit.stats.mean.sum = WithinSum(digit.rawadc, digit.stats.binMax, K)
  /\ LET ex == Analyse(ExampleSamples, 10, KeepDefault, 5).mean
     IN ex.bins = {9, 10, 11} /\ ex.cnt = 9 /\ ex.sum = 89

\* C16 - target: minNumBins is floor((1 - fTruncMeanFraction) * N) - 1, N
\* being the number of samples that were histogrammed.
C16_TargetCount ==
  Analysed =>
    digit.stats.minNumBins = ((digit.keep[1] * Len(digit.rawadc)) \div digit.keep[2]) - 1

\* C17 - identical windows: the rms pass takes the same bins, ends at the
\* same offset after the same number of iterations and with the same count
\* as the mean pass.
C17_IdenticalWindows ==
  digit.pc = "done" =>
    /\ digit.stats.rms.bins = digit.stats.mean.bins
    /\ digit.stats.rms.offset = digit.stats.mean.offset
    /\ digit.stats.rms.iters = digit.stats.mean.iters
    /\ digit.stats.rms.cnt = digit.stats.mean.cnt

\* both passes widened the window to a second bin
C17_Witness ==
  /\ digit.pc = "done"
  /\ digit.stats.mean.iters > 0
  /\ digit.stats.rms.iters > 0
  /\ ~digit.stats.mean.wrapped
  /\ Cardinality(digit.stats.rms.bins) >= 2

\* C18 - zero expansion: a digit with no sample, or whose target is at most
\* the count of the mode bin, ends with no iteration of either loop, a mean
\* that is a number (no division by 0) and equals binMax, an rms of 0, and is
\* marked noisy only under a cut <= 0.
C18_ZeroExpansion ==
  (Analysed /\ (digit.rawadc = << >> \/ digit.stats.minNumBins <= digit.stats.binMaxCnt)) =>
    /\ digit.pc = "done"
    /\ digit.stats.mean.iters = 0
    /\ digit.stats.rms.iters = 0
    /\ digit.stats.mean.cnt # 0
    /\ digit.stats.mean.sum = digit.stats.binMax * digit.stats.mean.cnt
    /\ digit.stats.rms.sq = 0
    /\ digit.stats.noisy => digit.cut <= 0

\* the largest minus the smallest sample value, 0 without samples
Spread(adc) ==
  IF adc = << >> THEN 0
  ELSE (CHOOSE v \in Bins(adc) : \A w \in Bins(adc) : w <= v)
       - (CHOOSE v \in Bins(adc) : \A w \in Bins(adc) : v <= w)

\* C19 - termination: every digit that is not skipped leaves both loops,
\* each after at most (largest - smallest sample value) iterations, the
\* 16-bit offset never having wrapped and no bin having been added twice.
C19_Termination ==
  digit.pc # "todo" =>
    /\ digit.pc \in {"skipped", "done"}
    /\ digit.stats.mean.iters <= Spread(digit.rawadc)
    /\ digit.stats.rms.iters <= Spread(digit.rawadc)
    /\ ~digit.stats.mean.wrapped
    /\ ~digit.stats.mean.twice

====
